---------------------------- MODULE Spec2Model ----------------------------
(***************************************************************************)
(* Bayesian-persuasion evaluator (src/simulator.py), the baseline scheme   *)
(* generators (src/baselines.py), the scenarios (src/scenarios.py), the    *)
(* scheme validator (src/llm_client.py) and the experiment loop            *)
(* (src/main.py).                                                          *)
(*                                                                         *)
(* Numbers.  The program computes in Python floats.  The model computes    *)
(* in exact rationals <<n, d>> (d > 0, lowest terms), so every statement   *)
(* about a numeric result is a statement about the exact value of the      *)
(* expression the code evaluates; float rounding is not modelled.          *)
(* Python dicts are functions; d[k] on a missing key raises KeyError and   *)
(* d.get(k, 0) yields 0.  A call's outcome is a record                     *)
(* [raised |-> "" or the exception's name, value |-> the returned value].  *)
(***************************************************************************)
EXTENDS Integers, Sequences, FiniteSets, TLC

VARIABLES
    game,       \* the scenario dict / the BayesianGameSimulator built from it
    scheme,     \* the signaling scheme handed to the simulator
    op,         \* the call made last
    ret,        \* what that call returned or raised
    pc,         \* run_experiment: where the loop stands
    scen_i,     \* run_experiment: index of the scenario being run
    run_i,      \* run_experiment: runs of this scenario done so far
    sim,        \* run_experiment: per-scenario locals (u_full_rev, u_no_rev, u_opt, ...)
    results,    \* run_experiment: the list of result records
    total_llm_attempts,
    successful_llm_runs

vars == <<game, scheme, op, ret, pc, scen_i, run_i, sim, results,
          total_llm_attempts, successful_llm_runs>>

----------------------------------------------------------------------------
(* Bounds of the model *)

\* scheme probabilities are drawn from {0, 1/ProbDen, ..., 1}
ProbDen == 2
\* priors of the generated games are drawn from {0, 1/PriorDen, ..., 1}
PriorDen == 2
\* utilities of the generated games are drawn from -MaxUtil..MaxUtil
MaxUtil == 1
\* num_runs_per_scenario handed to run_experiment
NumRuns == 2

----------------------------------------------------------------------------
(* Python values *)

\* Python's None where an action (a string) is expected
NoneAction == "None"

\* Python's None where a number or a scheme is expected
None == <<>>

Ok(v) == [raised |-> "", value |-> v]

Raise(e) == [raised |-> e, value |-> None]

RECURSIVE GCD(_, _)
GCD(a, b) == IF b = 0 THEN a ELSE GCD(b, a % b)

Abs(n) == IF n < 0 THEN -n ELSE n

\* the rational n/d in lowest terms with a positive denominator
Rat(n, d) ==
    LET g == GCD(Abs(n), Abs(d))
        s == IF d < 0 THEN -1 ELSE 1
    IN  <<(s * n) \div g, (s * d) \div g>>

Zero == <<0, 1>>

One == <<1, 1>>

\* -float('inf')
NegInf == <<-1, 0>>

FromInt(n) == <<n, 1>>

Add(a, b) == Rat(a[1] * b[2] + b[1] * a[2], a[2] * b[2])

Sub(a, b) == Rat(a[1] * b[2] - b[1] * a[2], a[2] * b[2])

Mul(a, b) == Rat(a[1] * b[1], a[2] * b[2])

\* a / b for b # 0
Div(a, b) == Rat(a[1] * b[2], a[2] * b[1])

\* a > b; every finite number is greater than NegInf
Greater(a, b) == IF b = NegInf THEN a # NegInf ELSE a[1] * b[2] > b[1] * a[2]

AbsRat(a) == <<Abs(a[1]), a[2]>>

\* d.get(k, 0)
Get(d, k) == IF k \in DOMAIN d THEN d[k] ELSE Zero

\* the elements of a list
Range(s) == {s[i] : i \in 1..Len(s)}

\* sum over a list, in list order: acc = 0.0; for x in s: acc += f(x)
RECURSIVE SumSeq(_, _, _)
SumSeq(f(_), s, i) == IF i > Len(s) THEN Zero ELSE Add(f(s[i]), SumSeq(f, s, i + 1))

\* sum over a set (Python iterates a set in an arbitrary order; the exact sum
\* does not depend on it)
RECURSIVE SumSet(_, _)
SumSet(f(_), S) ==
    IF S = {} THEN Zero
    ELSE LET x == CHOOSE y \in S : TRUE IN Add(f(x), SumSet(f, S \ {x}))

----------------------------------------------------------------------------
(* src/simulator.py: BayesianGameSimulator *)

\* mutant of prob_signal_of: line 20 without the factor self.prior[state]
prob_signal_of_unweighted(g, signal, signaling_scheme) ==
    LET term(state) == Get(signaling_scheme[state], signal)
    IN  SumSeq(term, g.states, 1)

\* P(signal) as the loop of lines 17-20 accumulates it
prob_signal_of(g, signal, signaling_scheme) ==
    LET term(state) == Mul(Get(signaling_scheme[state], signal), g.prior[state])
    IN  SumSeq(term, g.states, 1)

\* mutant of _calculate_posterior_belief: an impossible signal gets an
\* all-zero belief instead of the prior
_calculate_posterior_belief_zeros(g, signal, signaling_scheme) ==
    IF \E state \in Range(g.states) : state \notin DOMAIN signaling_scheme
    THEN Raise("KeyError")
    ELSE LET weighted == LET term(state) ==
                                 Mul(Get(signaling_scheme[state], signal), g.prior[state])
                         IN  SumSeq(term, g.states, 1)
         IN  IF weighted = Zero
             THEN Ok(<<[state \in Range(g.states) |-> Zero], Zero>>)
             ELSE Ok(<<[state \in Range(g.states) |->
                          Div(Mul(Get(signaling_scheme[state], signal), g.prior[state]),
                              weighted)],
                       weighted>>)

\* _calculate_posterior_belief: (posterior_belief, prob_signal)
_calculate_posterior_belief(g, signal, signaling_scheme) ==
    IF \E state \in Range(g.states) : state \notin DOMAIN signaling_scheme
    THEN Raise("KeyError")
    ELSE LET prob_signal == prob_signal_of(g, signal, signaling_scheme)
         IN  IF prob_signal = Zero
             THEN Ok(<<g.prior, Zero>>)
             ELSE Ok(<<[state \in Range(g.states) |->
                          Div(Mul(Get(signaling_scheme[state], signal), g.prior[state]),
                              prob_signal)],
                       prob_signal>>)

\* mutant of expected_utility: the Receiver is given the Sender's table
expected_utility_of_sender(g, action, posterior_belief) ==
    LET term(state) == Mul(FromInt(g.u_s[action][state]), posterior_belief[state])
    IN  SumSeq(term, g.states, 1)

\* E[U_R(a, w) | signal], lines 44-47
expected_utility(g, action, posterior_belief) ==
    LET term(state) == Mul(FromInt(g.u_r[action][state]), posterior_belief[state])
    IN  SumSeq(term, g.states, 1)

\* mutant of IsBetter: >= in place of >, so the last maximal action wins
IsBetterOrEqual(expected, max_expected_utility) == ~Greater(max_expected_utility, expected)

\* the comparison of line 49
IsBetter(expected, max_expected_utility) == Greater(expected, max_expected_utility)

\* the loop of lines 43-51 from action number i on
RECURSIVE ScanActions(_, _, _, _, _)
ScanActions(g, posterior_belief, i, max_expected_utility, optimal_action) ==
    IF i > Len(g.actions) THEN optimal_action
    ELSE LET action == g.actions[i]
             eu == expected_utility(g, action, posterior_belief)
         IN  IF IsBetter(eu, max_expected_utility)
             THEN ScanActions(g, posterior_belief, i + 1, eu, action)
             ELSE ScanActions(g, posterior_belief, i + 1, max_expected_utility, optimal_action)

\* _get_receiver_optimal_action: a*(m), or None when there is no action
_get_receiver_optimal_action(g, posterior_belief) ==
    ScanActions(g, posterior_belief, 1, NegInf, NoneAction)

\* step 1 of calculate_sender_expected_utility, lines 61-63
signals_of(signaling_scheme) ==
    UNION {DOMAIN signaling_scheme[state] : state \in DOMAIN signaling_scheme}

\* step 2, lines 66-72: the Receiver's action for each signal
optimal_action_for_signal(g, signaling_scheme) ==
    [signal \in signals_of(signaling_scheme) |->
        _get_receiver_optimal_action(g,
            _calculate_posterior_belief(g, signal, signaling_scheme).value[1])]

\* step 2, lines 66-72: P(m) for each signal
prob_of_signal(g, signaling_scheme) ==
    [signal \in signals_of(signaling_scheme) |->
        _calculate_posterior_belief(g, signal, signaling_scheme).value[2]]

\* mutant of total_expected_utility: line 86 without the factor self.prior[state]
total_expected_utility_unweighted(g, signaling_scheme) ==
    LET signals == UNION {DOMAIN signaling_scheme[state] : state \in DOMAIN signaling_scheme}
        utility_for_state(state) ==
            LET term(signal) ==
                    Mul(Get(signaling_scheme[state], signal),
                        FromInt(g.u_s[_get_receiver_optimal_action(g,
                            _calculate_posterior_belief(g, signal, signaling_scheme).value[1])][state]))
            IN  SumSet(term, signals)
    IN  SumSeq(utility_for_state, g.states, 1)

\* step 3, lines 75-86
total_expected_utility(g, signaling_scheme) ==
    LET signals == signals_of(signaling_scheme)
        a_star == optimal_action_for_signal(g, signaling_scheme)
        utility_for_state(state) ==
            LET term(signal) ==
                    Mul(Get(signaling_scheme[state], signal),
                        FromInt(g.u_s[a_star[signal]][state]))
            IN  SumSet(term, signals)
        weighted(state) == Mul(g.prior[state], utility_for_state(state))
    IN  SumSeq(weighted, g.states, 1)

\* calculate_sender_expected_utility
calculate_sender_expected_utility(g, signaling_scheme) ==
    LET signals == signals_of(signaling_scheme)
    IN  IF signals = {} THEN Ok(Zero)
        ELSE IF \E state \in Range(g.states) : state \notin DOMAIN signaling_scheme
        THEN Raise("KeyError")                                  \* line 20
        ELSE IF g.states # <<>> /\ \E signal \in signals :
                    optimal_action_for_signal(g, signaling_scheme)[signal] \notin DOMAIN g.u_s
        THEN Raise("KeyError")                                  \* line 82, u_s[None]
        ELSE Ok(total_expected_utility(g, signaling_scheme))

----------------------------------------------------------------------------
(* src/baselines.py *)

\* mutant of get_full_revelation_scheme: every state sends the first state's signal
get_full_revelation_scheme_first(states) ==
    [state_omega \in Range(states) |->
        [state_m \in Range(states) |-> IF state_m = states[1] THEN One ELSE Zero]]

get_full_revelation_scheme(states) ==
    [state_omega \in Range(states) |->
        [state_m \in Range(states) |-> IF state_omega = state_m THEN One ELSE Zero]]

get_no_revelation_scheme(states) ==
    [state \in Range(states) |-> [single_signal \in {"NoSignal"} |-> One]]

\* the hardcoded optimal scheme of QualityControl, lines 48-52
QualityControlOptimalScheme ==
    ("High Quality" :> ("SignalA" :> One @@ "SignalB" :> Zero)) @@
    ("Medium Quality" :> ("SignalA" :> One @@ "SignalB" :> Zero)) @@
    ("Low Quality" :> ("SignalA" :> Zero @@ "SignalB" :> One))

\* calculate_theoretical_optimum: (optimal_scheme, max_utility)
calculate_theoretical_optimum(scenario_name, game_definition) ==
    IF scenario_name = "SimpleBinaryGame"
    THEN <<get_no_revelation_scheme(game_definition.states), FromInt(1)>>
    ELSE IF scenario_name = "QualityControl"
    THEN <<QualityControlOptimalScheme, FromInt(7)>>
    ELSE <<None, NegInf>>

----------------------------------------------------------------------------
(* src/scenarios.py *)

scenario_1 ==
    [name |-> "QualityControl",
     states |-> <<"High Quality", "Medium Quality", "Low Quality">>,
     actions |-> <<"Buy", "Dont Buy">>,
     prior |-> ("High Quality" :> Rat(5, 10) @@ "Medium Quality" :> Rat(2, 10) @@
                "Low Quality" :> Rat(3, 10)),
     u_s |-> ("Buy" :> ("High Quality" :> 10 @@ "Medium Quality" :> 10 @@ "Low Quality" :> 10) @@
              "Dont Buy" :> ("High Quality" :> 0 @@ "Medium Quality" :> 0 @@ "Low Quality" :> 0)),
     u_r |-> ("Buy" :> ("High Quality" :> 5 @@ "Medium Quality" :> 1 @@ "Low Quality" :> -10) @@
              "Dont Buy" :> ("High Quality" :> 0 @@ "Medium Quality" :> 0 @@ "Low Quality" :> 0))]

scenario_2 ==
    [name |-> "SimpleBinaryGame",
     states |-> <<"Good", "Bad">>,
     actions |-> <<"Accept", "Reject">>,
     prior |-> ("Good" :> Rat(5, 10) @@ "Bad" :> Rat(5, 10)),
     u_s |-> ("Accept" :> ("Good" :> 1 @@ "Bad" :> 1) @@
              "Reject" :> ("Good" :> 0 @@ "Bad" :> 0)),
     u_r |-> ("Accept" :> ("Good" :> 1 @@ "Bad" :> -1) @@
              "Reject" :> ("Good" :> 0 @@ "Bad" :> 0))]

all_scenarios == <<scenario_1, scenario_2>>

----------------------------------------------------------------------------
(* src/llm_client.py *)

\* the tolerance of line 67, 1e-6
Tolerance == Rat(1, 1000000)

\* sum(signals.values()), line 66
prob_sum(signals) == LET val(m) == signals[m] IN SumSet(val, DOMAIN signals)

\* the test of line 67 (negated there): abs(prob_sum - 1.0) < 1e-6
SumsToOne(signals) == Greater(Tolerance, AbsRat(Sub(prob_sum(signals), One)))

\* validate_llm_scheme: (is_valid, message).  parsed is what json.loads gave:
\* [is_dict |-> whether it is a dict, items |-> the dict].  The rows of the
\* model's candidates are dicts of numbers, so line 61-62 never rejects one.
validate_llm_scheme(parsed, states) ==
    IF ~parsed.is_dict THEN <<FALSE, "Output is not a dictionary.">>
    ELSE IF DOMAIN parsed.items # Range(states)
    THEN <<FALSE, "Scheme keys do not match states.">>
    ELSE IF \E state \in DOMAIN parsed.items : DOMAIN parsed.items[state] = {}
    THEN <<FALSE, "No signals defined for state.">>
    ELSE IF \E state \in DOMAIN parsed.items : ~SumsToOne(parsed.items[state])
    THEN <<FALSE, "Probabilities for state do not sum to 1.0.">>
    ELSE <<TRUE, "Valid scheme.">>

\* get_llm_strategy: (scheme_dict, is_valid, status_message).  outcome is what
\* the provider call and json.loads did: an API error, undecodable text, or a
\* parsed JSON value.
get_llm_strategy(g, outcome) ==
    IF outcome.kind = "error" THEN <<None, FALSE, "API call failed">>
    ELSE IF outcome.kind = "undecodable"
    THEN <<None, FALSE, "Failed to decode LLM output as JSON.">>
    ELSE LET v == validate_llm_scheme(outcome.parsed, g.states)
         IN  IF v[1] THEN <<outcome.parsed.items, TRUE, "Success">>
             ELSE <<None, FALSE, "Invalid scheme">>

----------------------------------------------------------------------------
(* The inputs the calls are applied to *)

ProbGrid == {Rat(k, ProbDen) : k \in 0..ProbDen}

PriorGrid == {Rat(k, PriorDen) : k \in 0..PriorDen}

UtilGrid == (-MaxUtil)..MaxUtil

GridSignals == {"SignalA", "SignalB"}

\* every row over a subset of the signals, a signal may be absent from a row
Rows == UNION {[D -> ProbGrid] : D \in SUBSET GridSignals}

\* the rows that are probability distributions
ValidRows == {r \in Rows : DOMAIN r # {} /\ prob_sum(r) = One}

\* every scheme with one of the key sets and rows from the row set
SchemesOver(keysets, rowset) == UNION {[K -> rowset] : K \in keysets}

GeneratedStateLists == {<<"Good">>, <<"Good", "Bad">>}

GeneratedActionLists ==
    {<<>>, <<"Accept">>, <<"Reject">>, <<"Accept", "Reject">>, <<"Reject", "Accept">>}

\* a Sender table that gives every (action, state) pair its own payoff
DistinctSenderUtility(states, actions) ==
    [a \in Range(actions) |->
        [w \in Range(states) |->
            (CHOOSE i \in 1..Len(actions) : actions[i] = a) * Len(states)
            + (CHOOSE j \in 1..Len(states) : states[j] = w)]]

\* games in the shape of scenarios.py: every prior on the grid that sums to 1
\* (a state may have prior 0), every Receiver table on the utility grid
GeneratedGames ==
    {[name |-> "Generated", states |-> st, actions |-> ac, prior |-> pr,
      u_s |-> DistinctSenderUtility(st, ac), u_r |-> ur] :
        <<st, ac, pr, ur>> \in
            {t \in UNION {UNION {{st} \X {ac} \X [Range(st) -> PriorGrid]
                                      \X [Range(ac) -> [Range(st) -> UtilGrid]] :
                                 ac \in GeneratedActionLists} : st \in GeneratedStateLists} :
                LET mass(w) == t[3][w] IN SumSet(mass, DOMAIN t[3]) = One}}

\* SimpleBinaryGame under every prior of the grid
PriorVariants ==
    {[scenario_2 EXCEPT !.name = "Generated", !.prior = pr] :
        pr \in {q \in [Range(scenario_2.states) -> PriorGrid] :
                  LET mass(w) == q[w] IN SumSet(mass, DOMAIN q) = One}}

Games == Range(all_scenarios) \cup PriorVariants \cup GeneratedGames

\* the schemes a game starts with
InitSchemes(g) ==
    IF g = scenario_2
    THEN \* valid and invalid rows, missing states and an extra state
         SchemesOver(SUBSET (Range(g.states) \cup {"Ugly"}), Rows)
    ELSE IF g = scenario_1
    THEN SchemesOver(SUBSET Range(g.states), ValidRows)
    ELSE IF g \in PriorVariants
    THEN SchemesOver({Range(g.states)}, Rows)
    ELSE {get_no_revelation_scheme(g.states), [w \in Range(g.states) |-> <<>>]}

\* the signals a posterior is asked for: the scheme's own and one it never sends
AskedSignals(sch) == signals_of(sch) \cup {"Unused"}

\* the posteriors _get_receiver_optimal_action is asked about
AskedPosteriors(g, sch) ==
    {g.prior} \cup
    {_calculate_posterior_belief(g, m, sch).value[1] :
        m \in {x \in AskedSignals(sch) : _calculate_posterior_belief(g, x, sch).raised = ""}}

----------------------------------------------------------------------------
(* The calls, one at a time, on a constructed simulator *)

NotStarted ==
    /\ pc = "idle"
    /\ scen_i = 0
    /\ run_i = 0
    /\ sim = None
    /\ results = <<>>
    /\ total_llm_attempts = 0
    /\ successful_llm_runs = 0

experiment_vars == <<pc, scen_i, run_i, sim, results, total_llm_attempts, successful_llm_runs>>

Init ==
    /\ game \in Games
    /\ scheme \in InitSchemes(game)
    /\ op = [name |-> "__init__", arg |-> None]
    /\ ret = Ok(None)
    /\ NotStarted

CalculatePosteriorBelief ==
    \E signal \in AskedSignals(scheme) :
        /\ op' = [name |-> "_calculate_posterior_belief", arg |-> signal]
        /\ ret' = _calculate_posterior_belief(game, signal, scheme)
        /\ UNCHANGED <<game, scheme, experiment_vars>>

GetReceiverOptimalAction ==
    \E posterior_belief \in AskedPosteriors(game, scheme) :
        /\ op' = [name |-> "_get_receiver_optimal_action", arg |-> posterior_belief]
        /\ ret' = Ok(_get_receiver_optimal_action(game, posterior_belief))
        /\ UNCHANGED <<game, scheme, experiment_vars>>

CalculateSenderExpectedUtility ==
    /\ op' = [name |-> "calculate_sender_expected_utility", arg |-> None]
    /\ ret' = calculate_sender_expected_utility(game, scheme)
    /\ UNCHANGED <<game, scheme, experiment_vars>>

GetFullRevelationScheme ==
    /\ op' = [name |-> "get_full_revelation_scheme", arg |-> None]
    /\ scheme' = get_full_revelation_scheme(game.states)
    /\ ret' = Ok(None)
    /\ UNCHANGED <<game, experiment_vars>>

GetNoRevelationScheme ==
    /\ op' = [name |-> "get_no_revelation_scheme", arg |-> None]
    /\ scheme' = get_no_revelation_scheme(game.states)
    /\ ret' = Ok(None)
    /\ UNCHANGED <<game, experiment_vars>>

ValidateLlmScheme ==
    /\ op' = [name |-> "validate_llm_scheme", arg |-> None]
    /\ ret' = Ok(validate_llm_scheme([is_dict |-> TRUE, items |-> scheme], game.states))
    /\ UNCHANGED <<game, scheme, experiment_vars>>

Next ==
    \/ CalculatePosteriorBelief
    \/ GetReceiverOptimalAction
    \/ CalculateSenderExpectedUtility
    \/ GetFullRevelationScheme
    \/ GetNoRevelationScheme
    \/ ValidateLlmScheme

Spec == Init /\ [][Next]_vars

----------------------------------------------------------------------------
(* src/main.py: run_experiment(all_scenarios, NumRuns) *)

LLM_PROVIDER == "poe-Claude-3.5-Sonnet"

\* the smaller of two numbers, min() of line 57
Min(a, b) == IF Greater(a, b) THEN b ELSE a

\* every state but the last sends SignalA; the last sends SignalA with probability q
PoolButLast(states, q) ==
    [w \in Range(states) |->
        IF w = states[Len(states)]
        THEN ("SignalA" :> q @@ "SignalB" :> Sub(One, q))
        ELSE ("SignalA" :> One)]

\* the same row for every key
SameRows(keys, row) == [w \in keys |-> row]

\* the JSON objects a provider may answer with: distributions, rows that sum
\* to 0.9, rows with a negative entry, wrong key sets, empty rows
LlmCandidates(states) ==
    {get_full_revelation_scheme(states),
     get_no_revelation_scheme(states),
     PoolButLast(states, Rat(1, 2)),
     SameRows(Range(states), ("SignalA" :> Rat(9, 10))),
     SameRows(Range(states), ("SignalA" :> Rat(3, 2) @@ "SignalB" :> Rat(-1, 2))),
     SameRows(Range(states) \ {states[Len(states)]}, ("SignalA" :> One)),
     SameRows(Range(states) \cup {"Ugly"}, ("SignalA" :> One)),
     SameRows(Range(states), <<>>)}

\* what the provider call of lines 72-75 and json.loads can come to
ProviderOutcomes(g) ==
    {[kind |-> "error", parsed |-> None], [kind |-> "undecodable", parsed |-> None],
     [kind |-> "json", parsed |-> [is_dict |-> FALSE, items |-> None]]}
    \cup {[kind |-> "json", parsed |-> [is_dict |-> TRUE, items |-> c]] :
             c \in LlmCandidates(g.states)}

\* lines 33-64: the simulator, the two baselines and the optimum of a scenario
scenario_locals(scenario) ==
    LET u_full_rev ==
            calculate_sender_expected_utility(scenario,
                get_full_revelation_scheme(scenario.states)).value
        u_no_rev ==
            calculate_sender_expected_utility(scenario,
                get_no_revelation_scheme(scenario.states)).value
    IN  [u_full_rev |-> u_full_rev,
         u_no_rev |-> u_no_rev,
         worst_baseline_util |-> Min(u_full_rev, u_no_rev),
         u_opt |-> calculate_theoretical_optimum(scenario.name, scenario)[2]]

\* mutant of run_metrics: the metrics are computed without the test of
\* is_valid at line 82
run_metrics_unguarded(g, locals, llm_scheme, is_valid) ==
    LET u_llm == calculate_sender_expected_utility(g, llm_scheme).value
        denom_rpl == Sub(locals.u_opt, locals.worst_baseline_util)
    IN  [u_llm |-> u_llm,
         optimality_gap |->
             IF Greater(locals.u_opt, Zero)
             THEN Div(Sub(locals.u_opt, u_llm), locals.u_opt) ELSE None,
         rpl |->
             IF Greater(denom_rpl, Zero)
             THEN Div(Sub(u_llm, locals.worst_baseline_util), denom_rpl) ELSE None]

\* lines 77-99: u_llm, optimality_gap and rpl of one run
run_metrics(g, locals, llm_scheme, is_valid) ==
    IF ~is_valid THEN [u_llm |-> None, optimality_gap |-> None, rpl |-> None]
    ELSE LET u_llm == calculate_sender_expected_utility(g, llm_scheme).value
             denom_rpl == Sub(locals.u_opt, locals.worst_baseline_util)
         IN  [u_llm |-> u_llm,
              optimality_gap |->
                  IF Greater(locals.u_opt, Zero)
                  THEN Div(Sub(locals.u_opt, u_llm), locals.u_opt) ELSE None,
              rpl |->
                  IF Greater(denom_rpl, Zero)
                  THEN Div(Sub(u_llm, locals.worst_baseline_util), denom_rpl) ELSE None]

\* lines 105-117: the record of one run
result_record(g, locals, i, metrics, is_valid) ==
    [scenario |-> g.name,
     run |-> i + 1,
     u_llm |-> metrics.u_llm,
     u_theoretical_optimum |-> locals.u_opt,
     u_full_revelation |-> locals.u_full_rev,
     u_no_revelation |-> locals.u_no_rev,
     u_worst_baseline |-> locals.worst_baseline_util,
     optimality_gap |-> metrics.optimality_gap,
     rpl |-> metrics.rpl,
     is_valid_scheme |-> is_valid,
     llm_provider |-> LLM_PROVIDER]

InitExp ==
    /\ game = all_scenarios[1]
    /\ scheme = None
    /\ op = [name |-> "run_experiment", arg |-> None]
    /\ ret = Ok(None)
    /\ pc = "scenario"
    /\ scen_i = 1
    /\ run_i = 0
    /\ sim = None
    /\ results = <<>>
    /\ total_llm_attempts = 0
    /\ successful_llm_runs = 0

\* lines 30-64: enter the next scenario
BeginScenario ==
    /\ pc = "scenario"
    /\ game' = all_scenarios[scen_i]
    /\ sim' = scenario_locals(all_scenarios[scen_i])
    /\ run_i' = 0
    /\ pc' = "run"
    /\ UNCHANGED <<scheme, op, ret, scen_i, results, total_llm_attempts, successful_llm_runs>>

\* lines 67-117: one LLM run, from the provider call to the appended record
LlmRun ==
    /\ pc = "run"
    /\ \E outcome \in ProviderOutcomes(game) :
          LET strategy == get_llm_strategy(game, outcome)
              llm_scheme == strategy[1]
              is_valid == strategy[2]
              metrics == run_metrics(game, sim, llm_scheme, is_valid)
          IN  /\ total_llm_attempts' = total_llm_attempts + 1
              /\ successful_llm_runs' = successful_llm_runs + (IF is_valid THEN 1 ELSE 0)
              /\ scheme' = llm_scheme
              /\ op' = [name |-> "get_llm_strategy", arg |-> outcome.kind]
              /\ ret' = Ok(<<is_valid, strategy[3]>>)
              /\ results' = Append(results, result_record(game, sim, run_i, metrics, is_valid))
    /\ run_i' = run_i + 1
    /\ pc' = IF run_i + 1 < NumRuns THEN "run"
             ELSE IF scen_i < Len(all_scenarios) THEN "scenario" ELSE "report"
    /\ scen_i' = IF run_i + 1 < NumRuns THEN scen_i ELSE scen_i + 1
    /\ UNCHANGED <<game, sim>>

\* lines 119-141: the scheme validity rate
Report ==
    /\ pc = "report"
    /\ op' = [name |-> "scheme_validity_rate", arg |-> None]
    /\ ret' = Ok(IF total_llm_attempts > 0
                 THEN Rat(successful_llm_runs, total_llm_attempts) ELSE Zero)
    /\ pc' = "done"
    /\ UNCHANGED <<game, scheme, scen_i, run_i, sim, results,
                   total_llm_attempts, successful_llm_runs>>

NextExp == BeginScenario \/ LlmRun \/ Report

SpecExp == InitExp /\ [][NextExp]_vars

----------------------------------------------------------------------------
(* Properties *)

Called(name) == op.name = name

\* all probabilities >= 0
NonNegative(signals) == \A m \in DOMAIN signals : ~Greater(Zero, signals[m])

\* Prior: non-negative masses that sum to 1 over the states
ValidPrior(g) ==
    /\ DOMAIN g.prior = Range(g.states)
    /\ \A w \in DOMAIN g.prior : ~Greater(Zero, g.prior[w])
    /\ LET mass(w) == g.prior[w] IN SumSet(mass, DOMAIN g.prior) = One

\* SigningScheme invariant: key set equals the states, every row a distribution
ValidScheme(sch, states) ==
    /\ DOMAIN sch = Range(states)
    /\ \A w \in DOMAIN sch :
          DOMAIN sch[w] # {} /\ NonNegative(sch[w]) /\ SumsToOne(sch[w])

\* P(m | w) read off a scheme: a signal absent from a row has probability 0
CondProb(sch, w, m) == IF m \in DOMAIN sch[w] THEN sch[w][m] ELSE Zero

\* P(w) * P(m | w)
Joint(g, sch, w, m) == Mul(CondProb(sch, w, m), g.prior[w])

\* P(m) = sum over the states of P(w) * P(m | w)
Marginal(g, sch, m) ==
    LET joint(w) == Joint(g, sch, w, m) IN SumSet(joint, Range(g.states))

\* the Receiver's expected utility of an action under a belief
ReceiverEU(g, a, belief) ==
    LET term(w) == Mul(FromInt(g.u_r[a][w]), belief[w]) IN SumSet(term, Range(g.states))

\* C1: whenever the scheme's key set differs from the model's state set,
\* calculate_sender_expected_utility fails and returns no numeric utility.
C1_MismatchReturnsNoUtility ==
    (Called("calculate_sender_expected_utility") /\ DOMAIN scheme # Range(game.states))
        => ret.raised # ""

\* C2: every scheme the LLM branch of run_experiment evaluates satisfies the
\* SigningScheme invariant: key set equal to the states, every row summing to
\* 1 within 1e-6, every probability >= 0.
C2_EvaluatedSchemeIsValid ==
    (Called("get_llm_strategy") /\ ret.value[1]) => ValidScheme(scheme, game.states)

\* C3: for a non-empty action list the returned action has maximal Receiver
\* expected utility, and every action before it in the list has strictly less.
C3_FirstMaximalAction ==
    (Called("_get_receiver_optimal_action") /\ game.actions # <<>>) =>
        \E i \in 1..Len(game.actions) :
            /\ ret = Ok(game.actions[i])
            /\ \A j \in 1..Len(game.actions) :
                  ~Greater(ReceiverEU(game, game.actions[j], op.arg),
                           ReceiverEU(game, game.actions[i], op.arg))
            /\ \A j \in 1..(i - 1) :
                  Greater(ReceiverEU(game, game.actions[i], op.arg),
                          ReceiverEU(game, game.actions[j], op.arg))

\* C3's case: two actions tie for the maximum and the first is returned
C3_Witness ==
    /\ Called("_get_receiver_optimal_action")
    /\ Len(game.actions) = 2
    /\ ReceiverEU(game, game.actions[1], op.arg) = ReceiverEU(game, game.actions[2], op.arg)
    /\ \E w \in Range(game.states) : game.u_r[game.actions[1]][w] # game.u_r[game.actions[2]][w]
    /\ ret = Ok(game.actions[1])

\* C4: a signal of marginal probability 0 gets (prior, 0.0); any other signal
\* gets posterior[w] = P(m | w) P(w) / P(m) for every state together with P(m),
\* and that posterior sums to 1.
C4_PosteriorBelief ==
    (Called("_calculate_posterior_belief") /\ Range(game.states) \subseteq DOMAIN scheme) =>
        LET marginal == Marginal(game, scheme, op.arg)
        IN  IF marginal = Zero
            THEN ret = Ok(<<game.prior, Zero>>)
            ELSE /\ ret.raised = ""
                 /\ ret.value[2] = marginal
                 /\ DOMAIN ret.value[1] = Range(game.states)
                 /\ \A w \in Range(game.states) :
                       ret.value[1][w] = Div(Joint(game, scheme, w, op.arg), marginal)
                 /\ LET mass(w) == ret.value[1][w]
                    IN  SumSet(mass, Range(game.states)) = One

\* C4's case: the signal is sent with positive probability, but only by a
\* state of prior 0, and the prior comes back
C4_Witness ==
    /\ Called("_calculate_posterior_belief")
    /\ Range(game.states) \subseteq DOMAIN scheme
    /\ \E w \in Range(game.states) : Greater(CondProb(scheme, w, op.arg), Zero)
    /\ \E w \in Range(game.states) : op.arg \notin DOMAIN scheme[w]
    /\ Marginal(game, scheme, op.arg) = Zero
    /\ ret = Ok(<<game.prior, Zero>>)

\* C5: for a valid prior and a valid scheme the marginals of the scheme's
\* signals, as calculate_sender_expected_utility collects them, sum to 1.
C5_MarginalsSumToOne ==
    (/\ Called("calculate_sender_expected_utility")
     /\ ValidPrior(game)
     /\ ValidScheme(scheme, game.states)) =>
        LET p_m == prob_of_signal(game, scheme)
            mass(m) == p_m[m]
        IN  SumSet(mass, DOMAIN p_m) = One

\* C5's case: two signals, one of them absent from some row, both sent
C5_Witness ==
    /\ Called("calculate_sender_expected_utility")
    /\ ValidPrior(game)
    /\ ValidScheme(scheme, game.states)
    /\ Cardinality(signals_of(scheme)) = 2
    /\ \E w \in DOMAIN scheme : DOMAIN scheme[w] # signals_of(scheme)
    /\ \A m \in signals_of(scheme) : Greater(prob_of_signal(game, scheme)[m], Zero)
    /\ ret.raised = ""

\* C6: in SimpleBinaryGame the no-revelation scheme is worth exactly 1 to the
\* Sender and the full-revelation scheme exactly 1/2.
C6_SimpleBinaryGameBaselines ==
    (Called("calculate_sender_expected_utility") /\ game = scenario_2) =>
        /\ scheme = get_no_revelation_scheme(game.states) => ret = Ok(FromInt(1))
        /\ scheme = get_full_revelation_scheme(game.states) => ret = Ok(Rat(1, 2))

\* C6's case: the Receiver is indifferent under the prior, Accept is chosen
\* and the no-revelation scheme has been evaluated
C6_Witness ==
    /\ Called("calculate_sender_expected_utility")
    /\ game = scenario_2
    /\ scheme = get_no_revelation_scheme(game.states)
    /\ ReceiverEU(game, "Accept", game.prior) = ReceiverEU(game, "Reject", game.prior)
    /\ optimal_action_for_signal(game, scheme)["NoSignal"] = "Accept"
    /\ ret = Ok(FromInt(1))

\* the scheme sends SignalA for sure from High and Medium Quality and SignalB
\* for sure from Low Quality
SeparatesLow(sch) ==
    /\ DOMAIN sch = Range(scenario_1.states)
    /\ signals_of(sch) \subseteq {"SignalA", "SignalB"}
    /\ \A w \in {"High Quality", "Medium Quality"} :
          CondProb(sch, w, "SignalA") = One /\ CondProb(sch, w, "SignalB") = Zero
    /\ CondProb(sch, "Low Quality", "SignalA") = Zero
    /\ CondProb(sch, "Low Quality", "SignalB") = One

\* C7: in QualityControl the scheme that separates Low Quality from the other
\* two states is worth exactly 7 to the Sender.
C7_QualityControlSeparation ==
    (Called("calculate_sender_expected_utility") /\ game = scenario_1 /\ SeparatesLow(scheme))
        => ret = Ok(FromInt(7))

\* C7's case: the hardcoded optimal scheme has been evaluated; Buy answers
\* SignalA and Dont Buy answers SignalB
C7_Witness ==
    /\ Called("calculate_sender_expected_utility")
    /\ game = scenario_1
    /\ scheme = QualityControlOptimalScheme
    /\ optimal_action_for_signal(game, scheme) = ("SignalA" :> "Buy" @@ "SignalB" :> "Dont Buy")
    /\ ret = Ok(FromInt(7))

\* the belief that puts probability 1 on state w
PointMass(g, w) == [x \in Range(g.states) |-> IF x = w THEN One ELSE Zero]

\* sum over the states of P(w) * U_S(a*(w), w), a*(w) the best response to the
\* point mass on w
DirectFullRevelationUtility(g) ==
    LET term(w) ==
            Mul(g.prior[w],
                FromInt(g.u_s[_get_receiver_optimal_action(g, PointMass(g, w))][w]))
    IN  SumSet(term, Range(g.states))

\* C8: for a valid prior the utility of the full-revelation scheme equals the
\* direct sum over the states of P(w) * U_S(a*(w), w).
C8_FullRevelationDirectSum ==
    (/\ Called("calculate_sender_expected_utility")
     /\ ValidPrior(game)
     /\ game.actions # <<>>
     /\ scheme = get_full_revelation_scheme(game.states)) =>
        ret = Ok(DirectFullRevelationUtility(game))

\* C8's case: a state of prior 0 whose own signal is answered with the best
\* response to the prior, which is not the best response to its point mass
C8_Witness ==
    /\ Called("calculate_sender_expected_utility")
    /\ ValidPrior(game)
    /\ game.actions # <<>>
    /\ scheme = get_full_revelation_scheme(game.states)
    /\ \E w \in Range(game.states) :
          /\ game.prior[w] = Zero
          /\ optimal_action_for_signal(game, scheme)[w]
                = _get_receiver_optimal_action(game, game.prior)
          /\ optimal_action_for_signal(game, scheme)[w]
                # _get_receiver_optimal_action(game, PointMass(game, w))
    /\ ret = Ok(DirectFullRevelationUtility(game))

\* C9: with an empty action list neither _get_receiver_optimal_action nor
\* calculate_sender_expected_utility returns a result: each raises.
C9_EmptyActionSetFails ==
    (/\ game.actions = <<>>
     /\ Called("_get_receiver_optimal_action") \/ Called("calculate_sender_expected_utility"))
        => ret.raised # ""

\* C10: a valid scheme evaluated in the LLM branch never earns the Sender more
\* than u_opt: u_llm <= u_opt, optimality_gap >= 0 and rpl <= 1.
C10_OptimumIsCeiling ==
    (Called("get_llm_strategy") /\ ret.value[1] /\ ValidScheme(scheme, game.states)) =>
        LET r == results[Len(results)]
        IN  /\ ~Greater(r.u_llm, r.u_theoretical_optimum)
            /\ r.optimality_gap # None => ~Greater(Zero, r.optimality_gap)
            /\ r.rpl # None => ~Greater(r.rpl, One)


\* the scenario and the run number the k-th attempt belongs to
AttemptScenario(k) == all_scenarios[((k - 1) \div NumRuns) + 1]

AttemptRun(k) == ((k - 1) % NumRuns) + 1

\* C11: every LLM attempt has appended exactly one record, in scenario-then-run
\* order; a failed attempt's record has no u_llm, optimality_gap or rpl and
\* is_valid_scheme false; u_llm is present exactly when is_valid_scheme is
\* true; successful_llm_runs counts the valid records and never exceeds
\* total_llm_attempts; and until every run of every scenario is recorded the
\* loop stands at a scenario still to enter or a run still to make, whatever
\* the attempts before it did.
C11_OneRecordPerAttempt ==
    /\ Len(results) = total_llm_attempts
    /\ successful_llm_runs <= total_llm_attempts
    /\ successful_llm_runs
          = Cardinality({k \in 1..Len(results) : results[k].is_valid_scheme})
    /\ \A k \in 1..Len(results) :
          /\ results[k].scenario = AttemptScenario(k).name
          /\ results[k].run = AttemptRun(k)
          /\ (results[k].u_llm # None) <=> results[k].is_valid_scheme
          /\ ~results[k].is_valid_scheme =>
                results[k].optimality_gap = None /\ results[k].rpl = None
    /\ pc = "scenario" => total_llm_attempts = (scen_i - 1) * NumRuns
    /\ pc = "run" => total_llm_attempts = (scen_i - 1) * NumRuns + run_i
    /\ pc = "scenario" => scen_i \in 1..Len(all_scenarios)
    /\ pc = "run" => scen_i \in 1..Len(all_scenarios) /\ run_i < NumRuns /\ ENABLED LlmRun
    /\ pc \in {"report", "done"} => total_llm_attempts = Len(all_scenarios) * NumRuns

\* C11's case: the loop has finished; a provider error, an undecodable answer
\* or an invalid scheme left a record without metrics, and a later run, in a
\* later scenario, was still made and recorded with its u_llm
C11_Witness ==
    /\ pc = "done"
    /\ \E i, j \in 1..Len(results) :
          /\ i < j
          /\ ~results[i].is_valid_scheme
          /\ results[i].u_llm = None
          /\ results[j].is_valid_scheme
          /\ results[j].u_llm # None
          /\ results[i].scenario # results[j].scenario
    /\ successful_llm_runs < total_llm_attempts

=============================================================================
